---- MODULE Spec2Model ----
(***************************************************************************)
(* Model of app.py, the reseller order analyser: a Streamlit script that   *)
(* is re-run from top to bottom on every user interaction.  One action of  *)
(* the model is one interaction followed by the whole script run it        *)
(* triggers.  Session state (merge_success, combined_df) survives between  *)
(* runs; everything else is recomputed by each run.                        *)
(*                                                                         *)
(* A DataFrame is a record [cols, index, rows]: the ordered column names,  *)
(* the row labels and the rows, each row a tuple of cells aligned with     *)
(* cols.  Cells are integers; NaN is the missing cell.                     *)
(***************************************************************************)
EXTENDS Integers, Sequences, FiniteSets, TLC

VARIABLES
    uploaded_files,   \* st.file_uploader: the files currently in the uploader
    buyer_col,        \* sidebar text input 1
    date_col,         \* sidebar text input 2
    address_col,      \* sidebar text input 3
    merge_success,    \* st.session_state.merge_success
    combined_df,      \* st.session_state.combined_df
    clicked,          \* the button that triggered the last script run
    messages,         \* st.error / st.info / st.success emitted by the last run
    analyze_button,   \* whether the last run rendered the analysis button
    result_df,        \* result_df shown by the last run (None when not shown)
    attempt_df        \* history: the frame built by the latest merge attempt

vars == <<uploaded_files, buyer_col, date_col, address_col, merge_success,
          combined_df, clicked, messages, analyze_button, result_df, attempt_df>>

----------------------------------------------------------------------------
(* Bounds and input domains *)

MaxFiles == 2          \* files held by the uploader at once
MaxRows == 3           \* rows of a combined table drawn by InitAnalysis

None == [none |-> TRUE] \* Python's None, where a frame may stand
NaN == 0               \* a missing cell (what dropna / nunique treat as null)

Buyers == {1, 2}
Dates == {1, 2}
Addresses == {1, 2}

\* Column names; the Korean defaults of the sidebar are written in ASCII:
\* "buyer" for the buyer column, "date" for the date column, "addr" for the
\* address column.  OtherCol is a name no sample file carries.
DefaultBuyerCol == "buyer"
DefaultDateCol == "date"
DefaultAddressCol == "addr"
OtherCol == "memo"

StdCols == <<"buyer", "date", "addr">>

----------------------------------------------------------------------------
(* Sequence helpers *)

Range(s) == {s[i] : i \in DOMAIN s}

SeqsUpTo(S, n) == UNION {[1..k -> S] : k \in 0..n}

RECURSIVE Flatten(_)
Flatten(ss) == IF ss = <<>> THEN <<>> ELSE Head(ss) \o Flatten(Tail(ss))

RECURSIVE SumLens(_)
SumLens(ss) == IF ss = <<>> THEN 0 ELSE Len(Head(ss)) + SumLens(Tail(ss))

\* The positions 1 .. n, in increasing order
Positions(n) == [i \in 1..n |-> i]

----------------------------------------------------------------------------
(* DataFrames *)

\* pandas' default RangeIndex 0 .. n-1
RangeIndex(n) == [i \in 1..n |-> i - 1]

\* a frame as a parser returns it: the rows under a fresh RangeIndex
Frame(cols, rows) == [cols |-> cols, index |-> RangeIndex(Len(rows)), rows |-> rows]

\* position of column c in the frame (c is among df.cols)
ColPos(df, c) == CHOOSE k \in DOMAIN df.cols : df.cols[k] = c

\* df[c] at row position i
Cell(df, i, c) == df.rows[i][ColPos(df, c)]

\* boolean-mask / label selection: keep the rows at the positions idx, in that
\* order, with their labels
Take(df, idx) ==
    [cols |-> df.cols,
     index |-> [k \in DOMAIN idx |-> df.index[idx[k]]],
     rows |-> [k \in DOMAIN idx |-> df.rows[idx[k]]]]

----------------------------------------------------------------------------
(* load_dataframe *)

\* An uploaded file: its name, the suffix file.name.endswith sees, what its
\* bytes are, and the table they hold when a parser accepts them.
\*   bytes = "cp949"    text that decodes as cp949
\*   bytes = "utf8"     text on which cp949 raises UnicodeDecodeError, utf-8 works
\*   bytes = "garbage"  bytes no parser accepts
\*   bytes = "workbook" a spreadsheet workbook
File(name, suffix, bytes, cols, rows) ==
    [name |-> name, suffix |-> suffix, bytes |-> bytes, table |-> Frame(cols, rows)]

SampleFiles ==
    { File("a.csv", ".csv", "cp949", StdCols, << <<1, 2, 2>>, <<1, 1, 1>> >>),
      File("b.csv", ".csv", "utf8", StdCols, << <<NaN, 1, 1>>, <<2, 1, 1>> >>),
      File("c.xlsx", ".xlsx", "workbook", StdCols, << <<1, 1, 2>> >>),
      File("d.xls", ".xls", "workbook", <<"buyer", "addr", "date">>, << <<1, 1, 1>> >>),
      File("e.csv", ".csv", "cp949", <<"buyer", "date">>, << <<2, 1>> >>),
      File("f.csv", ".csv", "garbage", StdCols, <<>>),
      File("g.xlsx", ".xlsx", "garbage", StdCols, <<>>),
      File("H.CSV", ".CSV", "cp949", StdCols, << <<2, 2, 2>> >>) }

\* pd.read_csv(file, encoding=...): "ok", "UnicodeDecodeError" or another "Exception"
read_csv(file, encoding) ==
    CASE file.bytes = "cp949" -> "ok"
      [] file.bytes = "utf8" -> IF encoding = "utf-8" THEN "ok" ELSE "UnicodeDecodeError"
      [] file.bytes = "garbage" -> "UnicodeDecodeError"
      [] OTHER -> "Exception"

\* pd.read_excel(file)
read_excel(file) == IF file.bytes = "workbook" THEN "ok" ELSE "Exception"

\* The outcome of load_dataframe: [df, error].  df is the frame or None; error
\* tells whether the except branch reported the file with st.error.
load_outcome(file) ==
    IF file.suffix = ".csv"
    THEN IF read_csv(file, "cp949") = "ok"
         THEN [df |-> file.table, error |-> FALSE]
         ELSE IF read_csv(file, "cp949") = "UnicodeDecodeError"
              THEN IF read_csv(file, "utf-8") = "ok"
                   THEN [df |-> file.table, error |-> FALSE]
                   ELSE [df |-> None, error |-> TRUE]
              ELSE [df |-> None, error |-> TRUE]
    ELSE IF file.suffix \in {".xls", ".xlsx"}
         THEN IF read_excel(file) = "ok"
              THEN [df |-> file.table, error |-> FALSE]
              ELSE [df |-> None, error |-> TRUE]
         ELSE [df |-> None, error |-> FALSE]

load_dataframe(file) == load_outcome(file).df

\* one st.error / st.info / st.success call: its kind and what it names or counts
Msg(kind, arg) == <<kind, arg>>

----------------------------------------------------------------------------
(* The merge button handler *)

\* first_file_columns is None (<<>>) or a column list (<<cols>>)
NoColumns == <<>>

\* a loop that stops at the first file that did not load
NextAfterNoneStops(files, i) == Len(files) + 1

\* line 77: a file whose load returned None is skipped, the loop goes on
\* with the next file
NextAfterNone(files, i) == i + 1

\* The for loop over uploaded_files, from file i on.  st carries the loop's
\* locals: dataframes, first_file_columns, is_format_consistent, and the
\* errors reported so far.
RECURSIVE MergeLoop(_, _, _)
MergeLoop(files, i, st) ==
    IF i > Len(files) THEN st
    ELSE LET out == load_outcome(files[i])
             df == out.df
             errs == IF out.error
                     THEN st.errors \cup {Msg("load_error", files[i].name)}
                     ELSE st.errors
         IN IF df = None
            THEN MergeLoop(files, NextAfterNone(files, i), [st EXCEPT !.errors = errs])
            ELSE LET first == IF st.first_file_columns = NoColumns
                              THEN <<df.cols>> ELSE st.first_file_columns
                 IN IF <<df.cols>> /= first
                    THEN [st EXCEPT !.first_file_columns = first,
                                    !.is_format_consistent = FALSE,
                                    !.errors = errs \cup {Msg("format_mismatch", files[i].name)}]
                    ELSE MergeLoop(files, i + 1,
                             [st EXCEPT !.dataframes = Append(st.dataframes, df),
                                        !.first_file_columns = first,
                                        !.errors = errs])

MergeScan(files) ==
    MergeLoop(files, 1,
              [dataframes |-> <<>>, first_file_columns |-> NoColumns,
               is_format_consistent |-> TRUE, errors |-> {}])

\* a concatenation that takes the frames last to first
ConcatReversed(dataframes) ==
    Frame(dataframes[1].cols,
          Flatten([k \in DOMAIN dataframes |->
                      dataframes[Len(dataframes) + 1 - k].rows]))

\* pd.concat(dataframes, ignore_index=True) of frames with equal columns
Concat(dataframes) ==
    Frame(dataframes[1].cols,
          Flatten([k \in DOMAIN dataframes |-> dataframes[k].rows]))

\* a condition that forgets is_format_consistent
MergeAcceptedAnyFormat(scan) == scan.dataframes /= <<>>

\* the condition of line 86
MergeAccepted(scan) == scan.is_format_consistent /\ scan.dataframes /= <<>>

\* a handler without the else branch
FlagKeptAfterRejectedMerge(prior) == prior

\* the else branch of line 90
FlagAfterRejectedMerge(prior) == FALSE

----------------------------------------------------------------------------
(* The analysis section *)

\* an analysis that works on the session's frame itself, with no copy
SessionFrameAliased(session_df, cleaned_df) == cleaned_df

\* a check that looks for the buyer column only
BuyerColPresent(df, b, d, a) == b \in Range(df.cols)

\* line 102: all(col in df_to_analyze.columns for col in required_cols)
RequiredColsPresent(df, b, d, a) == \A col \in {b, d, a} : col \in Range(df.cols)

\* line 98: df_to_analyze is a copy, an object of its own, so the in-place
\* dropna of line 110 leaves the frame held by the session as it was
SessionFrameAfterAnalysis(session_df, cleaned_df) == session_df

\* df.dropna(subset=[b]): the rows whose b cell is not missing, labels kept
dropna(df, b) ==
    Take(df, SelectSeq(Positions(Len(df.rows)), LAMBDA i : Cell(df, i, b) /= NaN))

\* the group keys of df.groupby(b): the distinct non-missing b values
GroupKeys(df, b) == {Cell(df, i, b) : i \in DOMAIN df.rows} \ {NaN}

\* Series.nunique() within the group of key: distinct values, missing ones
\* not counted (dropna=True is the default)
nunique(df, b, key, c) ==
    Cardinality({Cell(df, i, c) : i \in {j \in DOMAIN df.rows : Cell(df, j, b) = key}}
                \ {NaN})

\* a filter that asks for either count to exceed 1
IsSuspiciousEither(unique_dates, unique_addresses) ==
    unique_dates > 1 \/ unique_addresses > 1

\* line 124: the filter on the aggregated counts
IsSuspicious(unique_dates, unique_addresses) ==
    unique_dates > 1 /\ unique_addresses > 1

\* lines 118-124: the index of the filtered aggregate
suspicious_buyers(df, b, d, a) ==
    {key \in GroupKeys(df, b) :
        IsSuspicious(nunique(df, b, key, d), nunique(df, b, key, a))}

\* an extraction that keeps one row, the first, of each flagged buyer
ExtractFirstRows(df, b, suspicious) ==
    Take(df, SelectSeq(Positions(Len(df.rows)),
                       LAMBDA i : /\ Cell(df, i, b) \in suspicious
                                  /\ \A j \in 1..(i - 1) : Cell(df, j, b) /= Cell(df, i, b)))

\* line 133: df[df[b].isin(suspicious)]
Extract(df, b, suspicious) ==
    Take(df, SelectSeq(Positions(Len(df.rows)),
                       LAMBDA i : Cell(df, i, b) \in suspicious))

\* ascending order of two cells, a missing cell after every value
\* (na_position='last')
CellLess(x, y) == x /= NaN /\ (y = NaN \/ x < y)

\* row position p sorts strictly before row position q under by=[b, d]
KeyLess(df, p, q, b, d) ==
    \/ CellLess(Cell(df, p, b), Cell(df, q, b))
    \/ /\ Cell(df, p, b) = Cell(df, q, b)
       /\ CellLess(Cell(df, p, d), Cell(df, q, d))

\* an insertion that puts p before the positions with an equal key
RECURSIVE InsertPosBeforeTies(_, _, _, _, _)
InsertPosBeforeTies(df, sorted, p, b, d) ==
    IF sorted = <<>> THEN <<p>>
    ELSE IF ~KeyLess(df, Head(sorted), p, b, d)
         THEN <<p>> \o sorted
         ELSE <<Head(sorted)>> \o InsertPosBeforeTies(df, Tail(sorted), p, b, d)

\* where position p goes in the sorted positions: after every position that
\* does not sort strictly after it
RECURSIVE InsertPos(_, _, _, _, _)
InsertPos(df, sorted, p, b, d) ==
    IF sorted = <<>> THEN <<p>>
    ELSE IF KeyLess(df, p, Head(sorted), b, d)
         THEN <<p>> \o sorted
         ELSE <<Head(sorted)>> \o InsertPos(df, Tail(sorted), p, b, d)

RECURSIVE SortPos(_, _, _, _)
SortPos(df, n, b, d) ==
    IF n = 0 THEN <<>> ELSE InsertPos(df, SortPos(df, n - 1, b, d), n, b, d)

\* line 134: sort_values(by=[b, d]), the stable multi-key sort
sort_values(df, b, d) == Take(df, SortPos(df, Len(df.rows), b, d))

\* lines 106-135: what a click on the analysis button computes
Analysis(session_df, b, d, a) ==
    LET cleaned == dropna(session_df, b)
        removed == Len(session_df.rows) - Len(cleaned.rows)
        suspicious == suspicious_buyers(cleaned, b, d, a)
        info == IF removed > 0 THEN {Msg("excluded", removed)} ELSE {}
    IN IF suspicious = {}
       THEN [messages |-> info \cup {Msg("no_findings", 0)}, result_df |-> None]
       ELSE [messages |-> info \cup {Msg("found", Cardinality(suspicious))},
             result_df |-> sort_values(Extract(cleaned, b, suspicious), b, d)]

\* lines 94-105 of a run in which the analysis button is not pressed
AnalysisSection(ms, df, b, d, a) ==
    IF ~ms THEN [button |-> FALSE, messages |-> {}]
    ELSE IF ~RequiredColsPresent(df, b, d, a)
         THEN [button |-> FALSE, messages |-> {Msg("missing_columns", 0)}]
         ELSE [button |-> TRUE, messages |-> {}]

----------------------------------------------------------------------------
(* Initial state: the first script run of a session *)

Init ==
    /\ uploaded_files = <<>>
    /\ buyer_col = DefaultBuyerCol
    /\ date_col = DefaultDateCol
    /\ address_col = DefaultAddressCol
    /\ merge_success = FALSE
    /\ combined_df = None
    /\ clicked = "none"
    /\ messages = {}
    /\ analyze_button = FALSE
    /\ result_df = None
    /\ attempt_df = None

----------------------------------------------------------------------------
(* Interactions.  Each one re-runs the script. *)

\* A run in which no button is pressed: the merge handler and the analysis
\* body are skipped, the analysis section is rendered for the session state.
RunWithoutClick(files, b, d, a) ==
    LET sec == AnalysisSection(merge_success, combined_df, b, d, a)
    IN /\ uploaded_files' = files
       /\ buyer_col' = b
       /\ date_col' = d
       /\ address_col' = a
       /\ clicked' = "none"
       /\ messages' = sec.messages
       /\ analyze_button' = sec.button
       /\ result_df' = None
       /\ UNCHANGED <<merge_success, combined_df, attempt_df>>

\* the user adds a file to the uploader
AddFile(f) ==
    /\ Len(uploaded_files) < MaxFiles
    /\ RunWithoutClick(Append(uploaded_files, f), buyer_col, date_col, address_col)

\* the user removes the i-th file from the uploader
RemoveFile(i) ==
    /\ i \in DOMAIN uploaded_files
    /\ RunWithoutClick(SubSeq(uploaded_files, 1, i - 1)
                         \o SubSeq(uploaded_files, i + 1, Len(uploaded_files)),
                       buyer_col, date_col, address_col)

\* the user edits one sidebar input; the three names stay pairwise distinct
SetBuyerCol(c) ==
    /\ c /= buyer_col /\ c \notin {date_col, address_col}
    /\ RunWithoutClick(uploaded_files, c, date_col, address_col)

SetDateCol(c) ==
    /\ c /= date_col /\ c \notin {buyer_col, address_col}
    /\ RunWithoutClick(uploaded_files, buyer_col, c, address_col)

SetAddressCol(c) ==
    /\ c /= address_col /\ c \notin {buyer_col, date_col}
    /\ RunWithoutClick(uploaded_files, buyer_col, date_col, c)

\* lines 68-91, then the analysis section with its button not pressed
ClickMerge ==
    /\ uploaded_files /= <<>>
    /\ LET scan == MergeScan(uploaded_files)
           ok == MergeAccepted(scan)
           built == IF ok THEN Concat(scan.dataframes) ELSE None
           df == IF ok THEN built ELSE combined_df
           ms == IF ok THEN TRUE ELSE FlagAfterRejectedMerge(merge_success)
           sec == AnalysisSection(ms, df, buyer_col, date_col, address_col)
       IN /\ combined_df' = df
          /\ merge_success' = ms
          /\ attempt_df' = built
          /\ messages' = scan.errors
                           \cup (IF ok THEN {Msg("merged", Len(uploaded_files))} ELSE {})
                           \cup sec.messages
          /\ analyze_button' = sec.button
    /\ clicked' = "merge"
    /\ result_df' = None
    /\ UNCHANGED <<uploaded_files, buyer_col, date_col, address_col>>

\* lines 94-146 with the analysis button pressed
ClickAnalyze ==
    /\ analyze_button
    /\ merge_success
    /\ RequiredColsPresent(combined_df, buyer_col, date_col, address_col)
    /\ LET run == Analysis(combined_df, buyer_col, date_col, address_col)
       IN /\ messages' = run.messages
          /\ result_df' = run.result_df
          /\ combined_df' = SessionFrameAfterAnalysis(
                                combined_df, dropna(combined_df, buyer_col))
    /\ clicked' = "analyze"
    /\ analyze_button' = TRUE
    /\ UNCHANGED <<uploaded_files, buyer_col, date_col, address_col,
                   merge_success, attempt_df>>

\* the download button, rendered with the result; the press re-runs the
\* script with no st.button pressed
ClickDownload ==
    /\ result_df /= None
    /\ RunWithoutClick(uploaded_files, buyer_col, date_col, address_col)

Next ==
    \/ \E f \in SampleFiles : AddFile(f)
    \/ \E i \in 1..MaxFiles : RemoveFile(i)
    \/ \E c \in {DefaultBuyerCol, OtherCol} : SetBuyerCol(c)
    \/ \E c \in {DefaultDateCol, OtherCol} : SetDateCol(c)
    \/ \E c \in {DefaultAddressCol, OtherCol} : SetAddressCol(c)
    \/ ClickMerge
    \/ ClickAnalyze
    \/ ClickDownload

Spec == Init /\ [][Next]_vars

----------------------------------------------------------------------------
(* The analysis over every small combined table: the session right after a *)
(* successful merge of files holding these rows, the uploader emptied.     *)

Cells(S) == S \cup {NaN}

AllRows == Cells(Buyers) \X Cells(Dates) \X Cells(Addresses)

InitAnalysis ==
    /\ uploaded_files = <<>>
    /\ buyer_col = DefaultBuyerCol
    /\ date_col = DefaultDateCol
    /\ address_col = DefaultAddressCol
    /\ merge_success = TRUE
    /\ combined_df \in {Frame(StdCols, rows) : rows \in SeqsUpTo(AllRows, MaxRows)}
    /\ clicked = "none"
    /\ messages = {}
    /\ analyze_button = TRUE
    /\ result_df = None
    /\ attempt_df = combined_df

NextAnalysis == ClickAnalyze \/ ClickDownload

SpecAnalysis == InitAnalysis /\ [][NextAnalysis]_vars

----------------------------------------------------------------------------
(* Vocabulary of the claims about a merge attempt *)

\* the tables of the batch that load, in upload order
LoadedTables(files) ==
    SelectSeq([i \in DOMAIN files |-> load_dataframe(files[i])],
              LAMBDA df : df /= None)

SomeLoadFails(files) == \E i \in DOMAIN files : load_dataframe(files[i]) = None

SameSchema(tables) == \A k \in DOMAIN tables : tables[k].cols = tables[1].cols

RowsInUploadOrder(tables) == Flatten([k \in DOMAIN tables |-> tables[k].rows])

\* the last run was a merge attempt on the batch now in the uploader
MergeAttempted == clicked = "merge"

----------------------------------------------------------------------------
\* C1: after a merge attempt whose loaded tables all have the column list S,
\* the session holds a combined table with columns S whose rows are the
\* loaded tables' rows in upload order, each file's rows in their own order;
\* its row count is the sum of the tables' row counts.
C1_MergeConcatenates ==
    LET tables == LoadedTables(uploaded_files)
    IN (MergeAttempted /\ tables /= <<>> /\ SameSchema(tables)) =>
          /\ merge_success
          /\ combined_df /= None
          /\ combined_df.cols = tables[1].cols
          /\ combined_df.rows = RowsInUploadOrder(tables)
          /\ Len(combined_df.rows)
               = SumLens([k \in DOMAIN tables |-> tables[k].rows])

C1_Witness ==
    LET tables == LoadedTables(uploaded_files)
    IN /\ MergeAttempted
       /\ Len(tables) = 2
       /\ SameSchema(tables)
       /\ Len(tables[1].rows) = 2
       /\ tables[1] /= tables[2]
       /\ Len(combined_df.rows) = 3

----------------------------------------------------------------------------
\* a loaded table's column list differs from the first loaded table's
SchemaMismatch(files) ==
    LET tables == LoadedTables(files)
    IN tables /= <<>> /\ ~SameSchema(tables)

\* C2 as stated: a merge attempt on a batch with a schema mismatch leaves the
\* held combined table and the merge-success flag as they were.
C2_AsStated ==
    [][(clicked' = "merge" /\ SchemaMismatch(uploaded_files')) =>
          (combined_df' = combined_df /\ merge_success' = merge_success)]_vars

\* C2 amended: a merge attempt on a batch with a schema mismatch builds no
\* combined table and leaves the held one as it was, and it sets the
\* merge-success flag to false whatever it was.
C2_MismatchRejected ==
    [][(clicked' = "merge" /\ SchemaMismatch(uploaded_files')) =>
          /\ combined_df' = combined_df
          /\ attempt_df' = None
          /\ merge_success' = FALSE]_vars

C2_Witness ==
    /\ MergeAttempted
    /\ SchemaMismatch(uploaded_files)
    /\ combined_df /= None
    /\ ~merge_success

----------------------------------------------------------------------------
\* C6: a file that fails to load is dropped without aborting the batch: when
\* the tables that do load (at least one) share a schema, the merge succeeds
\* with exactly their rows in upload order, and every file whose load raised
\* is reported by name.
C6_FailedFileDropped ==
    LET tables == LoadedTables(uploaded_files)
    IN (MergeAttempted /\ SomeLoadFails(uploaded_files)
          /\ tables /= <<>> /\ SameSchema(tables)) =>
          /\ merge_success
          /\ combined_df = attempt_df
          /\ combined_df.cols = tables[1].cols
          /\ combined_df.rows = RowsInUploadOrder(tables)
          /\ \A i \in DOMAIN uploaded_files :
                load_outcome(uploaded_files[i]).error =>
                    Msg("load_error", uploaded_files[i].name) \in messages

C6_Witness ==
    /\ MergeAttempted
    /\ Len(uploaded_files) = 2
    /\ load_dataframe(uploaded_files[1]) = None
    /\ load_dataframe(uploaded_files[2]) /= None
    /\ merge_success
    /\ combined_df.rows = load_dataframe(uploaded_files[2]).rows
    /\ Len(combined_df.rows) > 0

----------------------------------------------------------------------------
\* the configured names that the combined table's schema lacks
MissingColumns ==
    {c \in {buyer_col, date_col, address_col} : c \notin Range(combined_df.cols)}

\* C7: while the merge flag is set and a configured column name is absent
\* from the combined table's schema, every run reports the configuration
\* error, offers no analysis button and shows no result or analysis message.
C7_MissingColumnRefused ==
    (merge_success /\ MissingColumns /= {}) =>
        /\ ~analyze_button
        /\ Msg("missing_columns", 0) \in messages
        /\ result_df = None
        /\ clicked /= "analyze"
        /\ \A m \in messages : m[1] \notin {"excluded", "found", "no_findings"}

C7_Witness ==
    /\ merge_success
    /\ MissingColumns = {address_col}
    /\ address_col = DefaultAddressCol
    /\ ~analyze_button
    /\ Msg("missing_columns", 0) \in messages

----------------------------------------------------------------------------
\* C8: a merge attempt that loads zero tables creates no combined table (the
\* held one stays as it was), leaves the merge flag false and offers no
\* analysis.
C8_EmptyBatchRejected ==
    [][(clicked' = "merge" /\ LoadedTables(uploaded_files') = <<>>) =>
          /\ combined_df' = combined_df
          /\ attempt_df' = None
          /\ ~merge_success'
          /\ ~analyze_button']_vars

C8_Witness ==
    /\ MergeAttempted
    /\ Len(uploaded_files) = 2
    /\ LoadedTables(uploaded_files) = <<>>
    /\ combined_df /= None
    /\ ~merge_success

----------------------------------------------------------------------------
\* C9: only a merge action changes the held combined table or the merge
\* flag: every other run (upload, configuration change, analysis, download)
\* leaves both exactly as they were.
C9_OnlyMergeWritesSession ==
    [][clicked' /= "merge" =>
          (combined_df' = combined_df /\ merge_success' = merge_success)]_vars

\* an analysis that removed null-buyer rows and reordered rows in its result
C9_Witness ==
    /\ clicked = "analyze"
    /\ result_df /= None
    /\ \E m \in messages : m[1] = "excluded"
    /\ \E i \in DOMAIN combined_df.rows : Cell(combined_df, i, buyer_col) = NaN
    /\ \E k \in 1..(Len(result_df.index) - 1) : result_df.index[k] > result_df.index[k + 1]

----------------------------------------------------------------------------
\* C10: whenever the merge flag is set, a combined table is held and it is
\* the one the latest merge attempt built; the analysis button is offered
\* only then.
C10_FlagMeansLatestMerge ==
    /\ merge_success => (combined_df /= None /\ combined_df = attempt_df)
    /\ analyze_button => merge_success

C10_Witness ==
    /\ merge_success
    /\ combined_df = attempt_df
    /\ clicked = "analyze"
    /\ uploaded_files /= <<>>
    /\ SchemaMismatch(uploaded_files)

----------------------------------------------------------------------------
(* Vocabulary of the claims about an analysis run *)

AnalysisRan == clicked = "analyze"

BuyerAt(df, i) == Cell(df, i, buyer_col)

\* the buyer keys of the combined table: its non-null buyer values
BuyerKeys == {BuyerAt(combined_df, i) : i \in DOMAIN combined_df.rows} \ {NaN}

\* the cells of column c in the rows of buyer key
ValuesOf(key, c) ==
    {Cell(combined_df, i, c) :
        i \in {j \in DOMAIN combined_df.rows : BuyerAt(combined_df, j) = key}}

\* the buyers whose rows the run shows
FlaggedBuyers ==
    IF result_df = None THEN {}
    ELSE {BuyerAt(result_df, k) : k \in DOMAIN result_df.rows}

\* the buyers with more than one distinct non-missing date and more than one
\* distinct non-missing address
SuspiciousSet ==
    {key \in BuyerKeys :
        /\ Cardinality(ValuesOf(key, date_col) \ {NaN}) > 1
        /\ Cardinality(ValuesOf(key, address_col) \ {NaN}) > 1}

----------------------------------------------------------------------------
\* C3 as stated: a buyer is flagged iff its rows hold more than one distinct
\* date-column value and more than one distinct address-column value, every
\* cell of the column counting as a value.
C3_AsStated ==
    AnalysisRan =>
        \A key \in BuyerKeys :
            key \in FlaggedBuyers <=>
                /\ Cardinality(ValuesOf(key, date_col)) > 1
                /\ Cardinality(ValuesOf(key, address_col)) > 1

\* C3 amended: a buyer is flagged iff its rows hold more than one distinct
\* non-missing date and more than one distinct non-missing address; missing
\* cells of the date and address columns are not counted.  The run reports
\* the number of flagged buyers, or no findings when there is none.
C3_FlaggedIffBothCountsExceedOne ==
    AnalysisRan =>
        /\ FlaggedBuyers = SuspiciousSet
        /\ \A key \in BuyerKeys :
              (\/ Cardinality(ValuesOf(key, date_col) \ {NaN}) = 1
               \/ Cardinality(ValuesOf(key, address_col) \ {NaN}) = 1)
                  => key \notin FlaggedBuyers
        /\ IF SuspiciousSet = {}
           THEN Msg("no_findings", 0) \in messages
           ELSE Msg("found", Cardinality(SuspiciousSet)) \in messages

\* a flagged buyer one of whose rows has a missing date
C3_Witness ==
    /\ AnalysisRan
    /\ \E key \in FlaggedBuyers :
          /\ NaN \in ValuesOf(key, date_col)
          /\ Cardinality(ValuesOf(key, date_col) \ {NaN}) = 2
          /\ Cardinality(ValuesOf(key, address_col)) = 2

----------------------------------------------------------------------------
\* the row positions of the combined table whose buyer is non-null and flagged
FlaggedPositions ==
    {i \in DOMAIN combined_df.rows :
        BuyerAt(combined_df, i) /= NaN /\ BuyerAt(combined_df, i) \in SuspiciousSet}

\* C4: when some buyer is suspicious, the result holds each row of the
\* combined table whose buyer is non-null and flagged exactly once, and no
\* other row: its labels are those rows' labels without repetition, each
\* result row is the combined row of its label, columns unchanged.
C4_ResultIsFlaggedRows ==
    (AnalysisRan /\ SuspiciousSet /= {}) =>
        /\ result_df /= None
        /\ result_df.cols = combined_df.cols
        /\ Range(result_df.index) = {combined_df.index[i] : i \in FlaggedPositions}
        /\ Len(result_df.index) = Cardinality(FlaggedPositions)
        /\ \A k \in DOMAIN result_df.rows :
              /\ result_df.rows[k] = combined_df.rows[result_df.index[k] + 1]
              /\ BuyerAt(result_df, k) /= NaN
              /\ BuyerAt(result_df, k) \in SuspiciousSet

\* a flagged buyer with two rows shown, a null-buyer row left out
C4_Witness ==
    /\ AnalysisRan
    /\ result_df /= None
    /\ Len(result_df.rows) = 2
    /\ \E i \in DOMAIN combined_df.rows :
          i < Len(combined_df.rows) /\ BuyerAt(combined_df, i) = NaN

----------------------------------------------------------------------------
\* ascending order of the key (buyer, date), a missing date after every date
KeyLE(b1, d1, b2, d2) ==
    \/ b1 < b2
    \/ b1 = b2 /\ (d2 = NaN \/ (d1 /= NaN /\ d1 <= d2))

====
